---- MODULE Spec2Model ----
(***************************************************************************)
(* RadioButtonHelper (src/RadioButtonHelper.js): a helper that listens to  *)
(* four mouse events of a display object and sends it one of six labels.   *)
(*                                                                         *)
(* JavaScript values are written as strings: the words below stand for the *)
(* values undefined, null, true and false; every other string is itself.   *)
(***************************************************************************)
EXTENDS Integers, Sequences, FiniteSets, TLC

Undefined == "<undefined>"
Null      == "<null>"
JsTrue    == "<true>"
JsFalse   == "<false>"

\* JavaScript's truthiness, as `if (x)`, `x ? a : b` and `x && y` test it.
Truthy(v) == v \notin {Undefined, Null, JsFalse, "", "<0>"}

\* JavaScript's `a == b` on the values of this model: undefined and null are
\* equal to each other and to nothing else.
LooseEq(a, b) ==
  IF a \in {Undefined, Null} \/ b \in {Undefined, Null}
  THEN a \in {Undefined, Null} /\ b \in {Undefined, Null}
  ELSE a = b

\* The six label parameters of the constructor, in declaration order.
LabelNames ==
  <<"outFalseLabel", "overFalseLabel", "downFalseLabel",
    "outTrueLabel", "overTrueLabel", "downTrueLabel">>

\* The literal each label falls back to (lines 96-131).
DefaultLabel(name) ==
  CASE name = "outFalseLabel"  -> "outFalse"
    [] name = "overFalseLabel" -> "overFalse"
    [] name = "downFalseLabel" -> "downFalse"
    [] name = "outTrueLabel"   -> "outTrue"
    [] name = "overTrueLabel"  -> "overTrue"
    [] name = "downTrueLabel"  -> "downTrue"

\* A slip: `x || dflt`, which also replaces "" and 0.
LabelOrDefault_Falsy(arg, name) ==
  IF Truthy(arg) THEN arg ELSE DefaultLabel(name)

\* `x == null ? dflt : x`
LabelOrDefault(arg, name) ==
  IF LooseEq(arg, Null) THEN DefaultLabel(name) ELSE arg

\* The four event types setEnabled subscribes to, in the order of the calls.
EventNames == <<"rollover", "rollout", "mousedown", "pressup">>

SubscribedTypes == {EventNames[i] : i \in 1..Len(EventNames)}

\* What evt.type can be: the four above, another event's type, or no type at
\* all (the constructor's handleEvent({})).
EventTypes == SubscribedTypes \cup {"click", Undefined}

\* The sequence of events of the walk-through: over the button, press, leave
\* it with the button held, release.
Script == <<"rollover", "mousedown", "rollout", "pressup">>

\* The cap on the number of times the listeners are added in one behaviour.
MaxEnables == 2

VARIABLES
  pc,      \* "new" before the constructor has run, "live" after
  caps,    \* what the target object has: addEventListener, gotoAndStop, ...
  t,       \* the target display object's fields and its record of calls
  o,       \* a second display object, used when it is passed as hitArea
  h,       \* the RadioButtonHelper instance (`this`)
  args,    \* the arguments the constructor was called with
  lastOp,  \* the last operation run on the helper or the target
  calls,   \* the calls that operation made on the target and the hit area
  threw,   \* whether that operation ended with an exception
  script,  \* how far the operations since the constructor follow Script
  downs    \* the number of mousedown events handled since the constructor,
           \* modulo 2; -1 before it and once setValue has been called

vars == <<pc, caps, t, o, h, args, lastOp, calls, threw, script, downs>>

\* The world an operation runs in and changes: the helper, the target, the
\* other display object, the calls made so far and whether it has thrown.
World == [h |-> h, t |-> t, o |-> o, calls |-> calls, threw |-> threw]

Call(w, c) == [w EXCEPT !.calls = Append(@, c)]

\* A TypeError (reading a property of undefined, calling a non-function)
\* ends the operation where it is raised.
Throw(w) == [w EXCEPT !.threw = TRUE]

----------------------------------------------------------------------------
\* target.addEventListener(type, this) for the four types (lines 199-202). The
\* target keeps one entry per type and listener.
AddListeners(w) ==
  [w EXCEPT !.t.listeners = @ \cup SubscribedTypes,
            !.t.nAdd = @ + Len(EventNames),
            !.calls = @ \o [i \in 1..Len(EventNames) |->
                              "addEventListener:" \o EventNames[i]]]

\* A slip: the pressup listener is left on the target.
RemoveListeners_KeepsPressup(w) ==
  [w EXCEPT !.t.listeners = @ \ {"rollover", "rollout", "mousedown"},
            !.t.nRemove = @ + 3,
            !.calls = @ \o <<"removeEventListener:rollover",
                             "removeEventListener:rollout",
                             "removeEventListener:mousedown">>]

\* target.removeEventListener(type, this) for the four types (lines 206-209).
RemoveListeners(w) ==
  [w EXCEPT !.t.listeners = @ \ SubscribedTypes,
            !.t.nRemove = @ + Len(EventNames),
            !.calls = @ \o [i \in 1..Len(EventNames) |->
                              "removeEventListener:" \o EventNames[i]]]

\* if (o._reset) { o.__reset = o._reset; o._reset = this._reset; }
WrapReset(w) ==
  IF Truthy(w.t._reset)
  THEN [w EXCEPT !.t.__reset = w.t._reset, !.t._reset = "wrapper"]
  ELSE w

\* A slip: the saved hook is put back and not deleted.
UnwrapReset_NoDelete(w) ==
  IF Truthy(w.t.__reset)
  THEN [w EXCEPT !.t._reset = w.t.__reset]
  ELSE w

\* if (o.__reset) { o._reset = o.__reset; delete(o.__reset); }
UnwrapReset(w) ==
  IF Truthy(w.t.__reset)
  THEN [w EXCEPT !.t._reset = w.t.__reset, !.t.__reset = Undefined]
  ELSE w

\* A slip: no `if (value == this._enabled) { return; }`.
SetEnabledOp_NoGuard(w, value) ==
  LET w1 == [w EXCEPT !.h._enabled = value] IN
  IF w.h.target = Undefined THEN Throw(w1)
  ELSE IF Truthy(value)
  THEN WrapReset(AddListeners([w1 EXCEPT !.t.cursor = "pointer"]))
  ELSE UnwrapReset(RemoveListeners([w1 EXCEPT !.t.cursor = Null]))

\* p.setEnabled, also the setter of the `enabled` property (lines 193-212,
\* 228-232).
SetEnabledOp(w, value) ==
  IF LooseEq(value, w.h._enabled) THEN w
  ELSE LET w1 == [w EXCEPT !.h._enabled = value] IN
       IF w.h.target = Undefined THEN Throw(w1)
       ELSE IF Truthy(value)
       THEN WrapReset(AddListeners([w1 EXCEPT !.t.cursor = "pointer"]))
       ELSE UnwrapReset(RemoveListeners([w1 EXCEPT !.t.cursor = Null]))

\* p.getValue (lines 250-252).
GetValueOp(w) == w.h._checked

----------------------------------------------------------------------------
\* A slip: gotoAndStop whatever this.play is.
GotoLabel_AlwaysStop(w, label) ==
  IF w.h.target = Undefined THEN Throw(w)
  ELSE IF caps.gotoAndStop
       THEN Call([w EXCEPT !.t.label = label, !.t.via = "gotoAndStop"],
                 "gotoAndStop")
       ELSE w

\* The last statement of handleEvent and of setValue (lines 327-331 and
\* 281-285): gotoAndPlay or gotoAndStop with the label, when the target has
\* it. The target records the label and the method of the call.
GotoLabel(w, label) ==
  IF w.h.target = Undefined THEN Throw(w)
  ELSE LET method == IF Truthy(w.h.play) THEN "gotoAndPlay" ELSE "gotoAndStop" IN
       IF caps[method]
       THEN Call([w EXCEPT !.t.label = label, !.t.via = method], method)
       ELSE w

\* A slip: hovered is tested before pressed.
SetValueLabel_OverFirst(hh) ==
  IF Truthy(hh._checked)
  THEN IF Truthy(hh._isOver) THEN hh.overTrueLabel
       ELSE IF Truthy(hh._isPressed) THEN hh.downTrueLabel
       ELSE hh.outTrueLabel
  ELSE IF Truthy(hh._isOver) THEN hh.overFalseLabel
       ELSE IF Truthy(hh._isPressed) THEN hh.downFalseLabel
       ELSE hh.outFalseLabel

\* The label setValue picks (lines 262-279).
SetValueLabel(hh) ==
  IF Truthy(hh._checked)
  THEN IF Truthy(hh._isPressed) THEN hh.downTrueLabel
       ELSE IF Truthy(hh._isOver) THEN hh.overTrueLabel
       ELSE hh.outTrueLabel
  ELSE IF Truthy(hh._isPressed) THEN hh.downFalseLabel
       ELSE IF Truthy(hh._isOver) THEN hh.overFalseLabel
       ELSE hh.outFalseLabel

\* p.setValue (lines 259-286).
SetValueOp(w, val) ==
  LET w1 == [w EXCEPT !.h._checked = val] IN
  GotoLabel(w1, SetValueLabel(w1.h))

\* A slip: the press on a checked button shows the down label of the old value.
CheckedBranch_OldDownLabel(hh, type) ==
  IF type = "mousedown"
  THEN [h |-> [hh EXCEPT !._isPressed = JsTrue, !._checked = JsFalse],
        label |-> hh.downTrueLabel]
  ELSE IF type = "pressup"
  THEN [h |-> [hh EXCEPT !._isPressed = JsFalse],
        label |-> IF Truthy(hh._isOver) THEN hh.overTrueLabel ELSE hh.outTrueLabel]
  ELSE IF type = "rollover"
  THEN [h |-> [hh EXCEPT !._isOver = JsTrue],
        label |-> IF Truthy(hh._isPressed) THEN hh.downTrueLabel ELSE hh.overTrueLabel]
  ELSE [h |-> [hh EXCEPT !._isOver = JsFalse],
        label |-> IF Truthy(hh._isPressed) THEN hh.overTrueLabel ELSE hh.outTrueLabel]

\* A slip: leaving a checked button with the mouse held keeps its down label.
CheckedBranch_RollOutDown(hh, type) ==
  IF type = "mousedown"
  THEN [h |-> [hh EXCEPT !._isPressed = JsTrue, !._checked = JsFalse],
        label |-> hh.downFalseLabel]
  ELSE IF type = "pressup"
  THEN [h |-> [hh EXCEPT !._isPressed = JsFalse],
        label |-> IF Truthy(hh._isOver) THEN hh.overTrueLabel ELSE hh.outTrueLabel]
  ELSE IF type = "rollover"
  THEN [h |-> [hh EXCEPT !._isOver = JsTrue],
        label |-> IF Truthy(hh._isPressed) THEN hh.downTrueLabel ELSE hh.overTrueLabel]
  ELSE [h |-> [hh EXCEPT !._isOver = JsFalse],
        label |-> IF Truthy(hh._isPressed) THEN hh.downTrueLabel ELSE hh.outTrueLabel]

\* A slip: rolling over a checked button with the mouse held shows its over
\* label.
CheckedBranch_RollOverOver(hh, type) ==
  IF type = "mousedown"
  THEN [h |-> [hh EXCEPT !._isPressed = JsTrue, !._checked = JsFalse],
        label |-> hh.downFalseLabel]
  ELSE IF type = "pressup"
  THEN [h |-> [hh EXCEPT !._isPressed = JsFalse],
        label |-> IF Truthy(hh._isOver) THEN hh.overTrueLabel ELSE hh.outTrueLabel]
  ELSE IF type = "rollover"
  THEN [h |-> [hh EXCEPT !._isOver = JsTrue],
        label |-> hh.overTrueLabel]
  ELSE [h |-> [hh EXCEPT !._isOver = JsFalse],
        label |-> IF Truthy(hh._isPressed) THEN hh.overTrueLabel ELSE hh.outTrueLabel]

\* A slip: only rollout leaves the button; any other type changes nothing.
CheckedBranch_RollOutOnly(hh, type) ==
  IF type = "mousedown"
  THEN [h |-> [hh EXCEPT !._isPressed = JsTrue, !._checked = JsFalse],
        label |-> hh.downFalseLabel]
  ELSE IF type = "pressup"
  THEN [h |-> [hh EXCEPT !._isPressed = JsFalse],
        label |-> IF Truthy(hh._isOver) THEN hh.overTrueLabel ELSE hh.outTrueLabel]
  ELSE IF type = "rollover"
  THEN [h |-> [hh EXCEPT !._isOver = JsTrue],
        label |-> IF Truthy(hh._isPressed) THEN hh.downTrueLabel ELSE hh.overTrueLabel]
  ELSE IF type = "rollout"
  THEN [h |-> [hh EXCEPT !._isOver = JsFalse],
        label |-> IF Truthy(hh._isPressed) THEN hh.overTrueLabel ELSE hh.outTrueLabel]
  ELSE [h |-> hh,
        label |-> IF Truthy(hh._isPressed) THEN hh.overTrueLabel ELSE hh.outTrueLabel]

\* handleEvent when this._checked is truthy (lines 297-310): the helper after
\* the event and the label chosen for it.
CheckedBranch(hh, type) ==
  IF type = "mousedown"
  THEN [h |-> [hh EXCEPT !._isPressed = JsTrue, !._checked = JsFalse],
        label |-> hh.downFalseLabel]
  ELSE IF type = "pressup"
  THEN [h |-> [hh EXCEPT !._isPressed = JsFalse],
        label |-> IF Truthy(hh._isOver) THEN hh.overTrueLabel ELSE hh.outTrueLabel]
  ELSE IF type = "rollover"
  THEN [h |-> [hh EXCEPT !._isOver = JsTrue],
        label |-> IF Truthy(hh._isPressed) THEN hh.downTrueLabel ELSE hh.overTrueLabel]
  ELSE [h |-> [hh EXCEPT !._isOver = JsFalse],
        label |-> IF Truthy(hh._isPressed) THEN hh.overTrueLabel ELSE hh.outTrueLabel]

\* A slip: the press on an unchecked button does not check it.
UncheckedBranch_NoCheck(hh, type) ==
  IF type = "mousedown"
  THEN [h |-> [hh EXCEPT !._isPressed = JsTrue],
        label |-> hh.downTrueLabel]
  ELSE IF type = "pressup"
  THEN [h |-> [hh EXCEPT !._isPressed = JsFalse],
        label |-> IF Truthy(hh._isOver) THEN hh.overFalseLabel ELSE hh.outFalseLabel]
  ELSE IF type = "rollover"
  THEN [h |-> [hh EXCEPT !._isOver = JsTrue],
        label |-> IF Truthy(hh._isPressed) THEN hh.downFalseLabel ELSE hh.overFalseLabel]
  ELSE [h |-> [hh EXCEPT !._isOver = JsFalse],
        label |-> IF Truthy(hh._isPressed) THEN hh.overFalseLabel ELSE hh.outFalseLabel]

\* A slip: releasing over an unchecked button shows its out label.
UncheckedBranch_PressUpOut(hh, type) ==
  IF type = "mousedown"
  THEN [h |-> [hh EXCEPT !._isPressed = JsTrue, !._checked = JsTrue],
        label |-> hh.downTrueLabel]
  ELSE IF type = "pressup"
  THEN [h |-> [hh EXCEPT !._isPressed = JsFalse],
        label |-> hh.outFalseLabel]
  ELSE IF type = "rollover"
  THEN [h |-> [hh EXCEPT !._isOver = JsTrue],
        label |-> IF Truthy(hh._isPressed) THEN hh.downFalseLabel ELSE hh.overFalseLabel]
  ELSE [h |-> [hh EXCEPT !._isOver = JsFalse],
        label |-> IF Truthy(hh._isPressed) THEN hh.overFalseLabel ELSE hh.outFalseLabel]

\* handleEvent when this._checked is falsy (lines 312-325).
UncheckedBranch(hh, type) ==
  IF type = "mousedown"
  THEN [h |-> [hh EXCEPT !._isPressed = JsTrue, !._checked = JsTrue],
        label |-> hh.downTrueLabel]
  ELSE IF type = "pressup"
  THEN [h |-> [hh EXCEPT !._isPressed = JsFalse],
        label |-> IF Truthy(hh._isOver) THEN hh.overFalseLabel ELSE hh.outFalseLabel]
  ELSE IF type = "rollover"
  THEN [h |-> [hh EXCEPT !._isOver = JsTrue],
        label |-> IF Truthy(hh._isPressed) THEN hh.downFalseLabel ELSE hh.overFalseLabel]
  ELSE [h |-> [hh EXCEPT !._isOver = JsFalse],
        label |-> IF Truthy(hh._isPressed) THEN hh.overFalseLabel ELSE hh.outFalseLabel]

\* A slip: the test of this._checked is lost and the second branch always runs.
HandleEventBranch_Sticky(hh, type) == UncheckedBranch(hh, type)

\* if (this._checked) {...} else {...}   (lines 296-326)
HandleEventBranch(hh, type) ==
  IF Truthy(hh._checked) THEN CheckedBranch(hh, type)
                         ELSE UncheckedBranch(hh, type)

\* p.handleEvent (lines 294-332).
HandleEventOp(w, type) ==
  LET b == HandleEventBranch(w.h, type) IN
  GotoLabel([w EXCEPT !.h = b.h], b.label)

----------------------------------------------------------------------------
\* What the target's own _reset does to its paused flag is not this
\* repository's code: `q` is the value it leaves there.
OriginalReset(w, q) == Call([w EXCEPT !.t.paused = q], "reset")

\* A slip: no `this.paused = p;`.
ResetWrapper_NoRestore(w, q) ==
  IF w.t.__reset = "original" THEN OriginalReset(w, q) ELSE Throw(w)

\* p._reset, run with the target as `this` (lines 339-344).
ResetWrapper(w, q) ==
  LET p == w.t.paused IN
  IF w.t.__reset = "original"
  THEN [OriginalReset(w, q) EXCEPT !.t.paused = p]
  ELSE Throw(w)   \* this.__reset is not the original: no function, or itself

\* target._reset(), as the display list calls it.
ResetOp(w, q) ==
  IF w.t._reset = "wrapper" THEN ResetWrapper(w, q) ELSE OriginalReset(w, q)

----------------------------------------------------------------------------
\* The fields the constructor sets (lines 89-169) and line 172.
ConstructFields(w, a) ==
  [w EXCEPT !.h = [target         |-> "target",
                   overFalseLabel |-> LabelOrDefault(a.labels.overFalseLabel, "overFalseLabel"),
                   outFalseLabel  |-> LabelOrDefault(a.labels.outFalseLabel, "outFalseLabel"),
                   downFalseLabel |-> LabelOrDefault(a.labels.downFalseLabel, "downFalseLabel"),
                   overTrueLabel  |-> LabelOrDefault(a.labels.overTrueLabel, "overTrueLabel"),
                   outTrueLabel   |-> LabelOrDefault(a.labels.outTrueLabel, "outTrueLabel"),
                   downTrueLabel  |-> LabelOrDefault(a.labels.downTrueLabel, "downTrueLabel"),
                   play           |-> a.play,
                   _isPressed     |-> JsFalse,
                   _isOver        |-> JsFalse,
                   _enabled       |-> JsFalse,
                   _checked       |-> JsFalse],
            !.t.mouseChildren = JsFalse]

\* hitArea.actionsEnabled = false;
\* hitArea.gotoAndStop && hitArea.gotoAndStop(hitLabel);      (lines 177-178)
\* The hit area is the target itself or the other display object.
FreezeHitArea(w, a) ==
  LET w1 == Call(w, "hitArea.actionsEnabled=false") IN
  IF a.hitArea = "target"
  THEN LET w2 == [w1 EXCEPT !.t.actionsEnabled = JsFalse] IN
       IF caps.gotoAndStop
       THEN Call([w2 EXCEPT !.t.label = a.hitLabel, !.t.via = "gotoAndStop"],
                 "hitArea.gotoAndStop")
       ELSE w2
  ELSE LET w2 == [w1 EXCEPT !.o.actionsEnabled = JsFalse] IN
       IF w.o.gotoAndStop
       THEN Call([w2 EXCEPT !.o.label = a.hitLabel], "hitArea.gotoAndStop")
       ELSE w2

\* A slip: target.hitArea = hitArea before the hit area is frozen.
SetupHitArea_InstallFirst(w, a) ==
  IF Truthy(a.hitArea)
  THEN LET w1 == Call([w EXCEPT !.t.hitArea = a.hitArea], "target.hitArea=") IN
       IF Truthy(a.hitLabel) THEN FreezeHitArea(w1, a) ELSE w1
  ELSE w

\* if (hitArea) { if (hitLabel) {...} target.hitArea = hitArea; }
\* (lines 175-181)
SetupHitArea(w, a) ==
  IF Truthy(a.hitArea)
  THEN LET w1 == IF Truthy(a.hitLabel) THEN FreezeHitArea(w, a) ELSE w IN
       Call([w1 EXCEPT !.t.hitArea = a.hitArea], "target.hitArea=")
  ELSE w

\* A slip: no `if (!target.addEventListener) { return; }`.
ConstructOp_NoProbe(w, a) ==
  SetupHitArea(
    HandleEventOp(SetEnabledOp(ConstructFields(w, a), JsTrue), Undefined),
    a)

\* function RadioButtonHelper(target, ..., play, hitArea, hitLabel)
\* (lines 78-182).
ConstructOp(w, a) ==
  IF ~caps.addEventListener THEN w
  ELSE SetupHitArea(
         HandleEventOp(SetEnabledOp(ConstructFields(w, a), JsTrue), Undefined),
         a)

----------------------------------------------------------------------------
\* The label arguments: all six left out, or the six of the class comment's
\* example (line 55).
ExampleLabel(name) ==
  CASE name = "outFalseLabel"  -> "outfalse"
    [] name = "overFalseLabel" -> "overfalse"
    [] name = "downFalseLabel" -> "downfalse"
    [] name = "outTrueLabel"   -> "outtrue"
    [] name = "overTrueLabel"  -> "overtrue"
    [] name = "downTrueLabel"  -> "downtrue"

LabelSet == {LabelNames[i] : i \in 1..Len(LabelNames)}

NoLabels == [n \in LabelSet |-> Undefined]

ExampleLabels == [n \in LabelSet |-> ExampleLabel(n)]

\* The hit area arguments: none, the target itself frozen at its "hit" label
\* (as in the example of line 55), or another display object, frozen or as
\* it is.
HitArgs ==
  {<<Undefined, Undefined>>, <<"target", "hit">>, <<"other", "hit">>,
   <<"other", Undefined>>}

\* The constructor calls of this specification.
ConstructorArgs ==
  {[labels |-> l, play |-> p, hitArea |-> x[1], hitLabel |-> x[2]] :
     l \in {NoLabels, ExampleLabels}, p \in {Undefined, JsTrue}, x \in HitArgs}

NoArgs ==
  [labels |-> NoLabels, play |-> Undefined, hitArea |-> Undefined,
   hitLabel |-> Undefined]

\* A fresh object: reading any of its fields gives undefined.
NewHelper ==
  [f \in LabelSet \cup {"target", "play", "_isPressed", "_isOver", "_enabled",
                        "_checked"} |-> Undefined]

\* The targets of this specification are display objects: they have
\* addEventListener; gotoAndStop, gotoAndPlay and _reset they may lack.
Capabilities ==
  [addEventListener : {TRUE}, gotoAndStop : BOOLEAN, gotoAndPlay : BOOLEAN,
   _reset : BOOLEAN]

\* A target that is no display object: it has no addEventListener. It is a
\* bare object, or one with the rest of a display object's methods.
InertCapabilities ==
  {[addEventListener |-> FALSE, gotoAndStop |-> b, gotoAndPlay |-> b,
    _reset |-> b] : b \in BOOLEAN}

\* The state before the constructor runs on a target with one of the
\* capabilities of C.
InitFor(C) ==
  /\ pc = "new"
  /\ caps \in C
  /\ \E c \in {Null, "crosshair"}, p \in BOOLEAN :
       t = [cursor |-> c, mouseChildren |-> JsTrue, hitArea |-> Null,
            listeners |-> {}, paused |-> p, actionsEnabled |-> JsTrue,
            _reset |-> IF caps._reset THEN "original" ELSE Undefined,
            __reset |-> Undefined,
            label |-> Undefined, via |-> "none", nAdd |-> 0, nRemove |-> 0]
  /\ o = [gotoAndStop |-> TRUE, label |-> Undefined, actionsEnabled |-> JsTrue]
  /\ h = NewHelper
  /\ args = NoArgs
  /\ lastOp = [op |-> "none", arg |-> Undefined]
  /\ calls = <<>>
  /\ threw = FALSE
  /\ script = -1
  /\ downs = -1

Init == InitFor(Capabilities)

InitInert == InitFor(InertCapabilities)

\* An operation starts with an empty record of calls.
Start == [World EXCEPT !.calls = <<>>, !.threw = FALSE]

\* The position in Script after an event of `type` has been handled: one
\* further when it is the next event of Script, off it (-1) otherwise.
Follow(type) ==
  IF script >= 0 /\ script < Len(Script) /\ type = Script[script + 1]
  THEN script + 1
  ELSE -1

\* The count of mousedown events, modulo 2, after one more has been handled.
OneMoreDown == IF downs >= 0 THEN (downs + 1) % 2 ELSE -1

Apply(w, op, arg) ==
  /\ h' = w.h
  /\ t' = w.t
  /\ o' = w.o
  /\ calls' = w.calls
  /\ threw' = w.threw
  /\ lastOp' = [op |-> op, arg |-> arg]

\* new createjs.RadioButtonHelper(target, ...)
ConstructWith(A) ==
  /\ pc = "new"
  /\ \E a \in A :
       /\ args' = a
       /\ Apply(ConstructOp(Start, a), "new", Undefined)
  /\ pc' = "live"
  /\ script' = 0
  /\ downs' = 0
  /\ UNCHANGED caps

Construct == ConstructWith(ConstructorArgs)

\* The target dispatches a mouse event: the helper's handleEvent runs when it
\* is a listener of that type.
Dispatch(type) ==
  /\ pc = "live"
  /\ Apply(IF type \in t.listeners THEN HandleEventOp(Start, type) ELSE Start,
           "dispatch", type)
  /\ script' = IF type \in t.listeners THEN Follow(type) ELSE -1
  /\ downs' = IF type \in t.listeners /\ type = "mousedown" THEN OneMoreDown
                                                              ELSE downs
  /\ UNCHANGED <<pc, caps, args>>

\* helper.handleEvent(evt) called with an event of any type.
HandleEvent(type) ==
  /\ pc = "live"
  /\ Apply(HandleEventOp(Start, type), "handleEvent", type)
  /\ script' = Follow(type)
  /\ downs' = IF type = "mousedown" THEN OneMoreDown ELSE downs
  /\ UNCHANGED <<pc, caps, args>>

\* helper.setValue(val)
SetValue(val) ==
  /\ pc = "live"
  /\ Apply(SetValueOp(Start, val), "setValue", val)
  /\ script' = -1
  /\ downs' = -1
  /\ UNCHANGED <<pc, caps, args>>

\* helper.enabled = value
SetEnabled(value) ==
  /\ pc = "live"
  /\ IF Truthy(value) THEN t.nAdd < MaxEnables * Len(EventNames)
                      ELSE t.nRemove < MaxEnables * Len(EventNames)
  /\ Apply(SetEnabledOp(Start, value), "setEnabled", value)
  /\ script' = -1
  /\ UNCHANGED <<pc, caps, args, downs>>

\* target._reset()
Reset ==
  /\ pc = "live"
  /\ Truthy(t._reset)
  /\ \E q \in BOOLEAN : Apply(ResetOp(Start, q), "reset", Undefined)
  /\ script' = -1
  /\ UNCHANGED <<pc, caps, args, downs>>

Next ==
  \/ Construct
  \/ \E type \in SubscribedTypes : Dispatch(type)
  \/ \E type \in EventTypes : HandleEvent(type)
  \/ \E val \in {JsTrue, JsFalse} : SetValue(val)
  \/ \E value \in {JsTrue, JsFalse} : SetEnabled(value)
  \/ Reset

Spec == Init /\ [][Next]_vars

\* What a label argument can be: left out, null, the empty string, the number
\* 0, or a label of the timeline (the one of the class comment's example).
LabelKinds == {"undefined", "null", "empty", "zero", "string"}

LabelValue(kind, name) ==
  CASE kind = "undefined" -> Undefined
    [] kind = "null"      -> Null
    [] kind = "empty"     -> ""
    [] kind = "zero"      -> "<0>"
    [] kind = "string"    -> ExampleLabel(name)

\* The constructor calls of the specification of the labels: one label
\* argument of any kind, the five others all left out or all given; with and
\* without play; no hit area.
LabelledArgs ==
  {[labels   |-> [m \in LabelSet |-> LabelValue(IF m = n THEN k ELSE r, m)],
    play     |-> p,
    hitArea  |-> Undefined,
    hitLabel |-> Undefined] :
     n \in LabelSet, k \in LabelKinds, r \in {"undefined", "string"},
     p \in {Undefined, JsTrue}}

\* The targets of that specification: movie clips, which have all four.
ClipCapabilities ==
  {[addEventListener |-> TRUE, gotoAndStop |-> TRUE, gotoAndPlay |-> TRUE,
    _reset |-> TRUE]}

InitLabels == InitFor(ClipCapabilities)

ConstructLabels == ConstructWith(LabelledArgs)

NextLabels ==
  \/ ConstructLabels
  \/ \E type \in SubscribedTypes : Dispatch(type)
  \/ \E type \in EventTypes : HandleEvent(type)
  \/ \E val \in {JsTrue, JsFalse} : SetValue(val)
  \/ \E value \in {JsTrue, JsFalse} : SetEnabled(value)
  \/ Reset

SpecLabels == InitLabels /\ [][NextLabels]_vars

\* The same operations on a helper built on a target without addEventListener.
SpecInert == InitInert /\ [][Next]_vars

----------------------------------------------------------------------------
\* The vocabulary of the properties.

Checked == h._checked = JsTrue
Hovered == h._isOver = JsTrue
Pressed == h._isPressed = JsTrue
Enabled == h._enabled = JsTrue

\* The method the helper's mode selects, and whether the target has it: when
\* it has, every label the helper sends is recorded in t.label.
Method == IF Truthy(h.play) THEN "gotoAndPlay" ELSE "gotoAndStop"
CanShow == caps[Method]

\* The label most recently passed to the target's gotoAndStop or gotoAndPlay.
Displayed == t.label

DefaultLabels == args.labels = NoLabels

\* pressed > hovered > idle, each split by checked.
DownLabel(c) == IF c THEN h.downTrueLabel ELSE h.downFalseLabel
OverLabel(c) == IF c THEN h.overTrueLabel ELSE h.overFalseLabel
OutLabel(c)  == IF c THEN h.outTrueLabel ELSE h.outFalseLabel
PriorityLabel(c, hov, prs) ==
  IF prs THEN DownLabel(c) ELSE IF hov THEN OverLabel(c) ELSE OutLabel(c)

\* In the next state, an event of this type has just run through handleEvent.
Handled(type) ==
  /\ lastOp'.arg = type
  /\ \/ lastOp'.op = "handleEvent"
     \/ lastOp'.op = "dispatch" /\ type \in t.listeners

\* The same of the current state (the listeners do not change in an event).
WasHandled(type) ==
  /\ lastOp.arg = type
  /\ \/ lastOp.op = "handleEvent"
     \/ lastOp.op = "dispatch" /\ type \in t.listeners

----------------------------------------------------------------------------
\* C1: at any time after construction the label last sent to the target is
\* the one (checked, hovered, pressed) determine: the down label of checked if
\* pressed, else its over label if hovered, else its out label.
C1_LabelDeterminedByState ==
  pc = "live" /\ CanShow => Displayed = PriorityLabel(Checked, Hovered, Pressed)

\* C2: after the constructor has run with the six labels left out, the label
\* last sent to the target is "outFalse" and checked, hovered and pressed are
\* all false.
C2_InitialLabelOutFalse ==
  lastOp.op = "new" /\ DefaultLabels /\ CanShow =>
    /\ Displayed = "outFalse"
    /\ ~Checked /\ ~Hovered /\ ~Pressed

\* The failing case of C1 and C2: the target is its own hit area, and the
\* constructor's hitArea.gotoAndStop(hitLabel) is the last call it receives.
\* A second case of C1 does not need it: a rollout while pressed.
C1_RollOutWhilePressed ==
  WasHandled("rollout") /\ Pressed /\ CanShow /\ Displayed = OverLabel(Checked)

----------------------------------------------------------------------------
\* C3: a mousedown handled while checked is false sets checked and sends the
\* down label of true ("downTrue" by default); a pressup handled right after
\* it with hovered false sends the out label of true ("outTrue" by default)
\* and leaves checked true.
C3_PressOnUnchecked ==
  [][ /\ Handled("mousedown") /\ ~Checked =>
           /\ Checked'
           /\ CanShow => /\ Displayed' = h.downTrueLabel
                         /\ DefaultLabels => Displayed' = "downTrue"
      /\ WasHandled("mousedown") /\ Checked /\ Handled("pressup") /\ ~Hovered =>
           /\ Checked'
           /\ CanShow => /\ Displayed' = h.outTrueLabel
                         /\ DefaultLabels => Displayed' = "outTrue"
    ]_vars

\* A press has just checked the button and "downTrue" is shown.
C3_Witness ==
  /\ WasHandled("mousedown") /\ Checked /\ Pressed
  /\ DefaultLabels /\ CanShow /\ Displayed = "downTrue"

\* C4 as stated: a mousedown handled while checked is true clears checked and
\* sends the down label of false; a pressup handled right after it sends the
\* out label of false and leaves checked false.
C4_AsStated ==
  [][ /\ Handled("mousedown") /\ Checked =>
           /\ ~Checked'
           /\ CanShow => /\ Displayed' = h.downFalseLabel
                         /\ DefaultLabels => Displayed' = "downFalse"
      /\ WasHandled("mousedown") /\ ~Checked /\ Handled("pressup") =>
           /\ ~Checked'
           /\ CanShow => /\ Displayed' = h.outFalseLabel
                         /\ DefaultLabels => Displayed' = "outFalse"
    ]_vars

\* C4, amended: the pressup sends the out label of false when hovered is
\* false and the over label of false when hovered is true.
C4_PressOnChecked ==
  [][ /\ Handled("mousedown") /\ Checked =>
           /\ ~Checked'
           /\ CanShow => /\ Displayed' = h.downFalseLabel
                         /\ DefaultLabels => Displayed' = "downFalse"
      /\ WasHandled("mousedown") /\ ~Checked /\ Handled("pressup") =>
           /\ ~Checked'
           /\ CanShow /\ ~Hovered =>
                /\ Displayed' = h.outFalseLabel
                /\ DefaultLabels => Displayed' = "outFalse"
           /\ CanShow /\ Hovered =>
                /\ Displayed' = h.overFalseLabel
                /\ DefaultLabels => Displayed' = "overFalse"
    ]_vars

\* A press has just unchecked a hovered button and "downFalse" is shown.
C4_Witness ==
  /\ WasHandled("mousedown") /\ ~Checked /\ Pressed /\ Hovered
  /\ DefaultLabels /\ CanShow /\ Displayed = "downFalse"

\* C5: on a new helper, rollover, mousedown, rollout, pressup handled in that
\* order send the over label of false, the down label of true, the over label
\* of true and the out label of true ("overFalse", "downTrue", "overTrue",
\* "outTrue" by default).
C5_WalkThrough ==
  script >= 1 /\ CanShow =>
    /\ Displayed = <<h.overFalseLabel, h.downTrueLabel, h.overTrueLabel,
                     h.outTrueLabel>>[script]
    /\ DefaultLabels =>
         Displayed = <<"overFalse", "downTrue", "overTrue", "outTrue">>[script]

\* The four events have been handled in order and "outTrue" is shown.
C5_Witness ==
  script = Len(Script) /\ DefaultLabels /\ CanShow /\ Displayed = "outTrue"

----------------------------------------------------------------------------
\* C6: setValue(v) sets checked to v, leaves pressed, hovered and enabled as
\* they are, adds and removes no listener, and sends the label of (v, hovered,
\* pressed) by pressed > hovered > idle; setValue(true) with hovered and
\* pressed false sends "outTrue" by default.
C6_SetValueFrame ==
  [][ lastOp'.op = "setValue" =>
        /\ h'._checked = lastOp'.arg
        /\ h'._isPressed = h._isPressed
        /\ h'._isOver = h._isOver
        /\ h'._enabled = h._enabled
        /\ t'.listeners = t.listeners /\ t'.nAdd = t.nAdd /\ t'.nRemove = t.nRemove
        /\ \A i \in 1..Len(calls') : calls'[i] \in {"gotoAndStop", "gotoAndPlay"}
        /\ CanShow =>
             /\ Displayed' = PriorityLabel(lastOp'.arg = JsTrue, Hovered, Pressed)
             /\ DefaultLabels /\ lastOp'.arg = JsTrue /\ ~Hovered /\ ~Pressed =>
                  Displayed' = "outTrue"
    ]_vars

\* setValue(true) has run on an idle button and "outTrue" is shown.
C6_Witness ==
  /\ lastOp = [op |-> "setValue", arg |-> JsTrue]
  /\ Checked /\ ~Hovered /\ ~Pressed /\ Enabled
  /\ DefaultLabels /\ CanShow /\ Displayed = "outTrue"

\* C7: setting enabled to false on an enabled helper makes exactly the four
\* removeEventListener calls, one per event type, and no addEventListener
\* call; while the helper is disabled, an event the target dispatches changes
\* neither checked, hovered, pressed nor the label shown.
C7_DisableUnsubscribes ==
  [][ /\ lastOp' = [op |-> "setEnabled", arg |-> JsFalse] /\ Enabled =>
           /\ calls' = <<"removeEventListener:rollover",
                         "removeEventListener:rollout",
                         "removeEventListener:mousedown",
                         "removeEventListener:pressup">>
           /\ t'.nRemove = t.nRemove + 4
           /\ t'.nAdd = t.nAdd
           /\ t'.listeners = {}
      /\ pc = "live" /\ ~Enabled /\ lastOp'.op = "dispatch" =>
           /\ h' = h
           /\ t' = t
           /\ calls' = <<>>
    ]_vars

\* The target has dispatched a mousedown to a disabled helper.
C7_Witness ==
  /\ pc = "live" /\ ~Enabled
  /\ lastOp = [op |-> "dispatch", arg |-> "mousedown"]
  /\ t.nRemove = 4 /\ t.nAdd = 4 /\ ~Pressed

\* C8: setting enabled to the value it has changes nothing and calls nothing;
\* the listeners added number four more than those removed while enabled and
\* as many while disabled (four in all until the first disable), and the
\* saved reset hook is never the wrapper.
C8_SetEnabledIdempotent ==
  [][ /\ lastOp'.op = "setEnabled" /\ LooseEq(lastOp'.arg, h._enabled) =>
           /\ h' = h
           /\ t' = t
           /\ calls' = <<>>
      /\ t'.nAdd = t'.nRemove + (IF Enabled' THEN 4 ELSE 0)
      /\ t'.__reset # "wrapper"
    ]_vars

\* enabled has been set to true on the helper its constructor enabled.
C8_Witness ==
  /\ lastOp = [op |-> "setEnabled", arg |-> JsTrue]
  /\ Enabled /\ calls = <<>>
  /\ t.nAdd = 4 /\ t.nRemove = 0
  /\ t._reset = "wrapper" /\ t.__reset = "original"

\* C9: while the helper is disabled the target has no cursor, none of the four
\* listeners, its own reset hook (or none, if it had none) and no saved hook;
\* while it is enabled on a target that has a reset hook, the hook is the
\* wrapper and the saved hook is the original.
C9_DisableInvertsEnable ==
  pc = "live" =>
    /\ ~Enabled =>
         /\ t.cursor = Null
         /\ t.listeners = {}
         /\ t._reset = (IF caps._reset THEN "original" ELSE Undefined)
         /\ t.__reset = Undefined
    /\ Enabled /\ caps._reset =>
         /\ t._reset = "wrapper"
         /\ t.__reset = "original"

\* The helper has been enabled twice and disabled twice.
C9_Witness ==
  /\ pc = "live" /\ ~Enabled /\ caps._reset
  /\ lastOp = [op |-> "setEnabled", arg |-> JsFalse]
  /\ t.nAdd = 8 /\ t.nRemove = 8
  /\ t._reset = "original"

\* C10: with the wrapper installed, target._reset() calls the original reset
\* once, and the paused flag after it is the one before it.
C10_ResetKeepsPaused ==
  [][ lastOp'.op = "reset" /\ t._reset = "wrapper" =>
        /\ calls' = <<"reset">>
        /\ t'.paused = t.paused
        /\ ~threw'
    ]_vars

\* The wrapper has run on a paused target.
C10_Witness ==
  /\ lastOp.op = "reset" /\ t._reset = "wrapper"
  /\ calls = <<"reset">> /\ t.paused

----------------------------------------------------------------------------
\* C11: the constructor on a target without addEventListener does not throw,
\* calls nothing, and leaves the target (its listeners, cursor, mouseChildren,
\* hitArea and label), the other display object and the new helper as they
\* were.
C11_InertConstruction ==
  [][ lastOp'.op = "new" /\ ~caps.addEventListener =>
        /\ ~threw'
        /\ calls' = <<>>
        /\ t' = t
        /\ o' = o
        /\ h' = NewHelper
    ]_vars

\* The constructor has returned early on a target that has gotoAndStop and a
\* cursor of its own, called with the target as hit area.
C11_Witness ==
  /\ lastOp.op = "new" /\ ~caps.addEventListener /\ caps.gotoAndStop
  /\ args.hitArea = "target" /\ args.hitLabel = "hit"
  /\ t.cursor = "crosshair" /\ t.hitArea = Null /\ t.label = Undefined

\* C12: no operation on a helper ends with an exception, the helper built on
\* a target without addEventListener included.
C12_NeverThrows == ~threw

----------------------------------------------------------------------------
\* C13: each label of the helper is its fixed default exactly when its
\* argument is null or undefined, and is the argument otherwise, the empty
\* string and 0 included; that label is what setValue passes to the target
\* for the state it stands for.
C13_Defaults ==
  [outFalseLabel |-> "outFalse", overFalseLabel |-> "overFalse",
   downFalseLabel |-> "downFalse", outTrueLabel |-> "outTrue",
   overTrueLabel |-> "overTrue", downTrueLabel |-> "downTrue"]

C13_Kept(n) ==
  IF args.labels[n] \in {Null, Undefined} THEN C13_Defaults[n]
                                          ELSE args.labels[n]

C13_StateName ==
  (IF Pressed THEN "down" ELSE IF Hovered THEN "over" ELSE "out")
    \o (IF Checked THEN "True" ELSE "False") \o "Label"

----------------------------------------------------------------------------
\* C14: every handled event and every setValue makes one call on the target,
\* gotoAndPlay with the label when the helper was built with play and
\* gotoAndStop otherwise (also when play was left out), and never both; when
\* the target lacks that method there is no call and no exception, and
\* checked, hovered and pressed change as they do on any target.
C14_Method == IF args.play = JsTrue THEN "gotoAndPlay" ELSE "gotoAndStop"

C14_Sends ==
  \/ lastOp'.op = "setValue"
  \/ \E type \in EventTypes : Handled(type)

C14_StateUpdated ==
  /\ lastOp'.op = "setValue" => h'._checked = lastOp'.arg
  /\ Handled("mousedown") => Pressed' /\ (Checked' <=> ~Checked)
  /\ Handled("pressup") => ~Pressed'
  /\ Handled("rollover") => Hovered'
  /\ Handled("rollout") => ~Hovered'

C14_OnePrimitive ==
  [][ pc = "live" /\ C14_Sends =>
        /\ ~threw'
        /\ C14_StateUpdated
        /\ caps[C14_Method] =>
             /\ calls' = <<C14_Method>>
             /\ t'.via = C14_Method
             /\ Displayed' \in {h[n] : n \in LabelSet}
        /\ ~caps[C14_Method] =>
             /\ calls' = <<>>
             /\ t'.via = t.via /\ Displayed' = Displayed
    ]_vars

\* A press has been handled by a helper in play mode whose target has
\* gotoAndStop and no gotoAndPlay: nothing was called, the button is checked.
C14_Witness ==
  /\ WasHandled("mousedown") /\ args.play = JsTrue
  /\ ~caps.gotoAndPlay /\ caps.gotoAndStop
  /\ calls = <<>> /\ ~threw /\ Checked /\ Pressed

----------------------------------------------------------------------------
\* C15: a constructor given a hit area and a hit label sets the hit area's
\* actionsEnabled to false, then stops it at the hit label, then assigns it to
\* target.hitArea, in that order; given a hit area and no hit label it assigns
\* it with its actionsEnabled and frame as they were; given no hit area it
\* leaves target.hitArea as it was.
C15_HitCalls ==
  {"hitArea.actionsEnabled=false", "hitArea.gotoAndStop", "target.hitArea="}

C15_HitTrace(cs) == SelectSeq(cs, LAMBDA c : c \in C15_HitCalls)

C15_Frozen(obj, old) ==
  /\ obj.actionsEnabled = JsFalse
  /\ obj.gotoAndStop => obj.label = args'.hitLabel
  /\ ~obj.gotoAndStop => obj.label = old.label

C15_HitAreaSetup ==
  [][ lastOp'.op = "new" =>
        /\ Truthy(args'.hitArea) /\ Truthy(args'.hitLabel) =>
             /\ args'.hitArea = "other" =>
                  /\ C15_HitTrace(calls') =
                       <<"hitArea.actionsEnabled=false", "hitArea.gotoAndStop",
                         "target.hitArea=">>
                  /\ C15_Frozen(o', o)
             /\ args'.hitArea = "target" =>
                  /\ C15_HitTrace(calls') =
                       <<"hitArea.actionsEnabled=false">>
                       \o (IF caps.gotoAndStop THEN <<"hitArea.gotoAndStop">>
                           ELSE <<>>)
                       \o <<"target.hitArea=">>
                  /\ t'.actionsEnabled = JsFalse
                  /\ caps.gotoAndStop => Displayed' = args'.hitLabel
                  /\ o' = o
             /\ t'.hitArea = args'.hitArea
             /\ calls'[Len(calls')] = "target.hitArea="
        /\ Truthy(args'.hitArea) /\ ~Truthy(args'.hitLabel) =>
             /\ C15_HitTrace(calls') = <<"target.hitArea=">>
             /\ o' = o
             /\ t'.actionsEnabled = t.actionsEnabled
             /\ t'.hitArea = args'.hitArea
        /\ ~Truthy(args'.hitArea) =>
             /\ C15_HitTrace(calls') = <<>>
             /\ o' = o
             /\ t'.actionsEnabled = t.actionsEnabled
             /\ t'.hitArea = t.hitArea
    ]_vars

\* A helper has been built with another object as hit area and the label
\* "hit": that object is stopped at "hit" with its actions off, and is the
\* target's hit area.
C15_Witness ==
  /\ lastOp.op = "new" /\ args.hitArea = "other" /\ args.hitLabel = "hit"
  /\ o.actionsEnabled = JsFalse /\ o.label = "hit" /\ t.hitArea = "other"
  /\ Len(calls) >= 3
  /\ SubSeq(calls, Len(calls) - 2, Len(calls)) =
       <<"hitArea.actionsEnabled=false", "hitArea.gotoAndStop",
         "target.hitArea=">>

----------------------------------------------------------------------------
\* C16: checked changes only in a handled mousedown or in setValue. A handled
\* mousedown always flips it, sets pressed, leaves hovered as it was and shows
\* the down label of the new value; no other event, and neither enabling nor
\* disabling, changes it. Hence while no setValue has been called since the
\* constructor, getValue() is true exactly when the number of handled
\* mousedown events is odd, with or without a pressup between them.
C16_MouseDown ==
  Handled("mousedown") =>
    /\ Checked' <=> ~Checked
    /\ Pressed'
    /\ Hovered' <=> Hovered
    /\ CanShow => Displayed' = DownLabel(Checked')

C16_OnlyMouseDownOrSetValue ==
  h'._checked # h._checked =>
    \/ Handled("mousedown")
    \/ lastOp'.op = "setValue"

C16_Parity ==
  downs' >= 0 => (GetValueOp([h |-> h']) = JsTrue <=> downs' = 1)

C16_CheckedChanges ==
  [][ pc = "live" =>
        C16_MouseDown /\ C16_OnlyMouseDownOrSetValue /\ C16_Parity ]_vars

\* A second mousedown has been handled while the first was still held: the
\* count is even again and the button is unchecked and pressed.
C16_Witness ==
  /\ WasHandled("mousedown") /\ downs = 0
  /\ ~Checked /\ Pressed /\ GetValueOp(World) = JsFalse
  /\ CanShow /\ Displayed = DownLabel(FALSE)

----------------------------------------------------------------------------
\* C17: a handled pressup, in whatever state, clears pressed, leaves checked
\* and hovered as they were, and shows the over label of checked if hovered
\* and its out label otherwise.
C17_PressUp ==
  [][ Handled("pressup") =>
        /\ ~Pressed'
        /\ Checked' <=> Checked
        /\ Hovered' <=> Hovered
        /\ CanShow =>
             Displayed' = IF Hovered THEN OverLabel(Checked)
                                     ELSE OutLabel(Checked) ]_vars

\* The mouse was released over an unchecked button that was not pressed
\* (a setValue(false) came in between): its over label shows.
C17_Witness ==
  /\ WasHandled("pressup") /\ ~Checked /\ Hovered /\ ~Pressed
  /\ CanShow /\ Displayed = OverLabel(FALSE)

----------------------------------------------------------------------------
\* C18: a handled rollover, in whatever state, sets hovered, leaves checked
\* and pressed as they were, and shows the down label of checked if pressed
\* and its over label otherwise.
C18_RollOver ==
  [][ Handled("rollover") =>
        /\ Hovered'
        /\ Checked' <=> Checked
        /\ Pressed' <=> Pressed
        /\ CanShow =>
             Displayed' = IF Pressed THEN DownLabel(Checked)
                                     ELSE OverLabel(Checked) ]_vars

\* The mouse came back over a checked button while still held: its down
\* label shows again.
C18_Witness ==
  /\ WasHandled("rollover") /\ Checked /\ Hovered /\ Pressed
  /\ CanShow /\ Displayed = DownLabel(TRUE)

----------------------------------------------------------------------------
\* C19: an event whose type is not mousedown, pressup or rollover, an event
\* with no type among them, is handled as rollout is from the same state: it
\* clears hovered, leaves checked and pressed as they were, and sends the
\* label rollout would send.
C19_Unrecognized == EventTypes \ {"mousedown", "pressup", "rollover", "rollout"}

C19_AsRollOut ==
  LET r == HandleEventOp(Start, "rollout") IN
  /\ h' = r.h
  /\ t' = r.t
  /\ calls' = r.calls
  /\ threw' = r.threw

C19_DefaultIsRollOut ==
  [][ \A type \in C19_Unrecognized :
        Handled(type) =>
          /\ C19_AsRollOut
          /\ ~Hovered'
          /\ Checked' <=> Checked
          /\ Pressed' <=> Pressed ]_vars

\* An event with no type has been handled by a checked, hovered and pressed
\* button: it is no longer hovered and shows the label of rollout while
\* pressed.
C19_Witness ==
  /\ WasHandled(Undefined) /\ lastOp.op = "handleEvent"
  /\ Checked /\ Pressed /\ ~Hovered
  /\ CanShow /\ Displayed = h.overTrueLabel

----------------------------------------------------------------------------
\* C20: when the constructor returns, the label last sent to the target is
\* the out label of the unchecked button, whatever hit area and hit label
\* were passed, the target itself as hit area with a hit label included.
C20_InitialLabelSurvivesHitArea ==
  \A x \in HitArgs :
    /\ lastOp.op = "new" /\ pc = "live" /\ CanShow
    /\ args.hitArea = x[1] /\ args.hitLabel = x[2]
    => Displayed = OutLabel(FALSE)

====
